---- MODULE Spec2Model ----
(***************************************************************************)
(* A model of three UI pieces of the editor:                               *)
(*   - useMovingAnimation (block-editor/components/use-moving-animation),  *)
(*   - HeadingLevelDropdown (heading block toolbar),                       *)
(*   - the block-directory selectors exercised by store/test/selectors.js. *)
(* Each piece has its own specification; the variables of the other two    *)
(* pieces are held at a fixed value while one piece runs.                  *)
(***************************************************************************)
EXTENDS Integers, Sequences, FiniteSets, TLC

VARIABLES
    \* ---- useMovingAnimation ----
    props,        \* the hook's arguments of the latest render
    pref,         \* useReducedMotion(): the reduce-motion preference
    triggered,    \* triggeredAnimation (useReducer)
    finished,     \* finishedAnimation  (useReducer)
    transform,    \* transform (useState): x, y, clientTop
    queue,        \* dispatched, not yet rendered: triggerAnimation, endAnimation, setTransform
    previous,     \* `previous` of the latest render (has = FALSE: null)
    deps,         \* the dependency arrays the two layout effects last ran with
    spring,       \* animationProps: the animated x, y, in 1/Scale pixel
    styleOut,     \* the style object the latest render returned, interpolations evaluated
    dom,          \* ref.current and the page: attached, base position, inline style, scrolling
    scrollRef,    \* scrollContainer.current is set (truthy)
    fx,           \* what the trigger layout effect did when it last ran
    pc,           \* position of the render / commit / layout-effect cycle
    \* ---- HeadingLevelDropdown ----
    hd,
    \* ---- block-directory selectors ----
    sel

animVars == <<props, pref, triggered, finished, transform, queue, previous, deps,
              spring, styleOut, dom, scrollRef, fx, pc>>
vars == <<props, pref, triggered, finished, transform, queue, previous, deps,
          spring, styleOut, dom, scrollRef, fx, pc, hd, sel>>

(***************************************************************************)
(* Bounds of the model.                                                    *)
(***************************************************************************)
MaxTop == 1        \* offsetTop ranges over 0..MaxTop pixels
MaxLeft == 1       \* offsetLeft ranges over 0..MaxLeft pixels
MaxTriggers == 2   \* changes of triggerAnimationOnChange in one behaviour
Scale == 2         \* spring values are multiples of 1/Scale pixel

\* ------------------------------------------------------------------------
\* JavaScript values that end up in style objects.
NoOverride == [t |-> "undefined", n |-> 0]
Px(n) == [t |-> "px", n |-> n]
ZOne == [t |-> "string", n |-> 1]

\* Math.round on a value given in 1/Scale pixel: floor(v + 1/2), so that
\* -0.5 rounds to (minus) zero and 0.5 to 1.
MathRound(v) == (2 * v + Scale) \div (2 * Scale)

Positions == [top : 0..MaxTop, left : 0..MaxLeft]
Null == [has |-> FALSE, top |-> 0, left |-> 0]

\* The pixels of an inline left / top value; none counts as 0.
PxOf(v) == IF v.t = "px" THEN v.n ELSE 0

\* element.offsetTop / offsetLeft: the layout position plus the inline override.
getAbsolutePosition(d) ==
    [has |-> TRUE, top |-> d.base.top + PxOf(d.style.top),
                   left |-> d.base.left + PxOf(d.style.left)]

\* element.getBoundingClientRect().top: relative to the scrolled viewport.
\* scrollTop is the number the code assigns to the scroll container.
BoundingTop(d) == d.base.top + PxOf(d.style.top) - d.scrollTop

\* A reducer that returns its state unchanged.
counterReducerStuck(state) == state

\* const counterReducer = ( state ) => state + 1;
counterReducer(state) == state + 1

\* ------------------------------------------------------------------------
\* useMovingAnimation
\* ------------------------------------------------------------------------

\* const prefersReducedMotion = useReducedMotion() || ! enableAnimation;
prefersReducedMotion(reduced, enableAnimation) == reduced \/ ~enableAnimation

PRM == prefersReducedMotion(pref, props.enableAnimation)

\* interpolate( [ animationProps.x ], ( x ) => ... ): the left / top override.
InterpolateOffset(v) ==
    LET r == MathRound(v)
    IN  IF r = 0 THEN NoOverride ELSE Px(r)

\* A zIndex interpolation that ignores isSelected.
InterpolateZIndexUnselected(isSelected, x, y) ==
    IF x = 0 /\ y = 0 THEN NoOverride ELSE ZOne

\* interpolate( [ animationProps.x, animationProps.y ], ( x, y ) => ... ).
InterpolateZIndex(isSelected, x, y) ==
    IF ~isSelected \/ (x = 0 /\ y = 0) THEN NoOverride ELSE ZOne

EmptyStyle == [k \in {} |-> NoOverride]

\* A return that ignores prefersReducedMotion.
ExposedStyleAlways(prm, isSelected, x, y) ==
    [left |-> InterpolateOffset(x),
     top |-> InterpolateOffset(y),
     zIndex |-> InterpolateZIndex(isSelected, x, y)]

\* The hook's return value, each interpolation evaluated at the spring's values.
ExposedStyle(prm, isSelected, x, y) ==
    IF prm
    THEN EmptyStyle
    ELSE [left |-> InterpolateOffset(x),
          top |-> InterpolateOffset(y),
          zIndex |-> InterpolateZIndex(isSelected, x, y)]

\* The first layout effect without its guard.
ShouldEndAnimationUnguarded(triggeredAnimation) == TRUE

\* if ( triggeredAnimation ) { endAnimation(); }
ShouldEndAnimation(triggeredAnimation) == triggeredAnimation # 0

\* The second layout effect without its early return.
NoPreviousIgnored(prev) == FALSE

\* if ( ! previous ) { return; }
NoPrevious(prev) == ~prev.has

\* The delta taken as destination - previous.
DeltaSwapped(prev, destination) ==
    [x |-> destination.left - prev.left, y |-> destination.top - prev.top]

\* const x = previous.left - destination.left; const y = previous.top - destination.top;
Delta(prev, destination) ==
    [x |-> prev.left - destination.left, y |-> prev.top - destination.top]

\* ref.current.style.left = x === 0 ? undefined : `${ x }px`;
InlineOverride(v) == IF v = 0 THEN NoOverride ELSE Px(v)

\* The scroll jump with the signs of previous and destination swapped.
JumpScrollTopSwapped(scrollTop, prev, destination) ==
    scrollTop + prev.top - destination.top

\* scrollContainer.current.scrollTop - previous.top + destination.top
JumpScrollTop(scrollTop, prev, destination) == scrollTop - prev.top + destination.top

\* reset: triggeredAnimation !== finishedAnimation
SpringReset(triggeredAnimation, finishedAnimation) ==
    triggeredAnimation # finishedAnimation

NoStyle == [left |-> NoOverride, top |-> NoOverride]
NoQueue == [trigger |-> 0, end |-> 0, hasTransform |-> FALSE,
            transform |-> [x |-> 0, y |-> 0, clientTop |-> 0]]

PropsSet(t) == [isSelected : BOOLEAN, adjustScrolling : BOOLEAN,
                enableAnimation : BOOLEAN, trigger : {t}]

AnimInit ==
    /\ props \in PropsSet(0)
    /\ pref \in BOOLEAN
    /\ triggered = 0
    /\ finished = 0
    /\ transform = [x |-> 0, y |-> 0, clientTop |-> 0]
    /\ queue = NoQueue
    /\ previous = Null
    /\ deps = [ran |-> FALSE, triggered |-> 0, trigger |-> 0]
    /\ spring = [x |-> 0, y |-> 0]
    /\ styleOut = EmptyStyle
    /\ dom \in [attached : {FALSE}, base : {[top |-> 0, left |-> 0]},
                style : {NoStyle}, hasScroller : BOOLEAN, scrollTop : {0}]
    /\ scrollRef = FALSE
    /\ fx = "none"
    /\ pc = "render"

AnimIdle ==
    /\ props = [isSelected |-> FALSE, adjustScrolling |-> FALSE,
                enableAnimation |-> FALSE, trigger |-> 0]
    /\ pref = FALSE
    /\ triggered = 0
    /\ finished = 0
    /\ transform = [x |-> 0, y |-> 0, clientTop |-> 0]
    /\ queue = NoQueue
    /\ previous = Null
    /\ deps = [ran |-> FALSE, triggered |-> 0, trigger |-> 0]
    /\ spring = [x |-> 0, y |-> 0]
    /\ styleOut = EmptyStyle
    /\ dom = [attached |-> FALSE, base |-> [top |-> 0, left |-> 0],
              style |-> NoStyle, hasScroller |-> FALSE, scrollTop |-> 0]
    /\ scrollRef = FALSE
    /\ fx = "none"
    /\ pc = "unmounted"

\* One run of the hook body with arguments p and preference r: the queued
\* dispatches become the state, `previous` is measured, useSpring is updated
\* and the style object is returned.
Render(p, r) ==
    LET prm == prefersReducedMotion(r, p.enableAnimation)
        trg == triggered + queue.trigger
        fin == finished + queue.end
        tf == IF queue.hasTransform THEN queue.transform ELSE transform
        sp == IF prm THEN [x |-> 0, y |-> 0]
              ELSE IF SpringReset(trg, fin)
                   THEN [x |-> tf.x * Scale, y |-> tf.y * Scale]
                   ELSE spring
    IN  /\ props' = p
        /\ pref' = r
        /\ triggered' = trg
        /\ finished' = fin
        /\ transform' = tf
        /\ queue' = NoQueue
        /\ previous' = IF dom.attached THEN getAbsolutePosition(dom) ELSE Null
        /\ spring' = sp
        /\ styleOut' = ExposedStyle(prm, p.isSelected, sp.x, sp.y)
        /\ fx' = "none"
        /\ pc' = "commit"
        /\ UNCHANGED <<deps, dom, scrollRef>>

\* The first render, and the re-render React runs for the state the layout
\* effects dispatched.
StateRender ==
    /\ pc = "render"
    /\ Render(props, pref)
    /\ UNCHANGED <<hd, sel>>

\* The parent renders the block again with other arguments, or the
\* reduce-motion preference changes; dispatched state is rendered with it.
ParentRender ==
    /\ pc \in {"idle", "render"}
    /\ dom.attached
    /\ \E r \in BOOLEAN :
         \E t \in {props.trigger} \cup
                  (IF props.trigger < MaxTriggers THEN {props.trigger + 1} ELSE {}) :
           \E p \in PropsSet(t) :
             /\ <<p, r>> # <<props, pref>>
             /\ Render(p, r)
    /\ UNCHANGED <<hd, sel>>

\* React's commit: the element is attached to the ref and laid out (at a new
\* place when the block was mounted or moved), and the rendered style is
\* applied to it.
Commit ==
    /\ pc = "commit"
    /\ \E b \in Positions :
         /\ (deps.ran /\ props.trigger = deps.trigger) => b = dom.base
         /\ dom' = [dom EXCEPT !.attached = TRUE,
                               !.base = b,
                               !.style = IF PRM THEN NoStyle
                                         ELSE [left |-> InterpolateOffset(spring.x),
                                               top |-> InterpolateOffset(spring.y)]]
    /\ pc' = "effect1"
    /\ UNCHANGED <<props, pref, triggered, finished, transform, queue, previous,
                   deps, spring, styleOut, scrollRef, fx, hd, sel>>

\* useLayoutEffect( () => { if ( triggeredAnimation ) endAnimation(); },
\*                  [ triggeredAnimation ] )
LayoutEffect1 ==
    /\ pc = "effect1"
    /\ IF ~deps.ran \/ deps.triggered # triggered
       THEN /\ queue' = IF ShouldEndAnimation(triggered)
                        THEN [queue EXCEPT !.end = counterReducer(queue.end)]
                        ELSE queue
            /\ deps' = [deps EXCEPT !.triggered = triggered]
       ELSE UNCHANGED <<queue, deps>>
    /\ pc' = "effect2"
    /\ UNCHANGED <<props, pref, triggered, finished, transform, previous,
                   spring, styleOut, dom, scrollRef, fx, hd, sel>>

AfterEffects(q) == IF q = NoQueue THEN "idle" ELSE "render"

\* useLayoutEffect( () => { ... }, [ triggerAnimationOnChange ] ); it is the
\* last user of the render's `previous`, which is gone with the render after it.
LayoutEffect2 ==
    /\ pc = "effect2"
    /\ deps' = [deps EXCEPT !.ran = TRUE, !.trigger = props.trigger]
    /\ IF deps.ran /\ deps.trigger = props.trigger
       THEN /\ fx' = "none"
            /\ UNCHANGED <<queue, dom, scrollRef>>
       ELSE IF NoPrevious(previous)
       THEN /\ fx' = "skipped"
            /\ UNCHANGED <<queue, dom, scrollRef>>
       ELSE LET cleared == [dom EXCEPT !.style = NoStyle]
                destination == getAbsolutePosition(cleared)
            IN  /\ scrollRef' = dom.hasScroller
                /\ IF PRM
                   THEN IF props.adjustScrolling /\ dom.hasScroller
                        THEN /\ dom' = [cleared EXCEPT !.scrollTop =
                                  JumpScrollTop(dom.scrollTop, previous, destination)]
                             /\ fx' = "jumped"
                             /\ UNCHANGED queue
                        ELSE /\ fx' = "reduced"
                             /\ UNCHANGED <<queue, dom>>
                   ELSE LET d == Delta(previous, destination)
                            frozen == [cleared EXCEPT
                                         !.style = [left |-> InlineOverride(d.x),
                                                    top |-> InlineOverride(d.y)]]
                        IN  /\ dom' = frozen
                            /\ queue' = [queue EXCEPT
                                 !.trigger = counterReducer(queue.trigger),
                                 !.hasTransform = TRUE,
                                 !.transform = [x |-> d.x, y |-> d.y,
                                                clientTop |-> BoundingTop(frozen)]]
                            /\ fx' = "animated"
    /\ previous' = Null
    /\ pc' = AfterEffects(queue')
    /\ UNCHANGED <<props, pref, triggered, finished, transform,
                   spring, styleOut, hd, sel>>

\* The values between v and 0.
Toward(v) == IF v >= 0 THEN 0..v ELSE v..0

\* The spring from transform (x, y) to (0, 0) is critically damped (mass 5,
\* tension 2000, friction 200) and both axes share its curve: at progress k of
\* Scale the animated value is k/Scale of the delta, k falling from Scale to 0.
SpringAt(k) == [x |-> transform.x * k, y |-> transform.y * k]

\* One animation frame of useSpring: the animated values move toward (0, 0),
\* the interpolated style is written to the element, then onFrame runs.
Frame ==
    /\ pc = "idle"
    /\ spring # [x |-> 0, y |-> 0]
    /\ \E k \in 0..(Scale - 1) :
         LET next == SpringAt(k)
             moved == [dom EXCEPT !.style = [left |-> InterpolateOffset(next.x),
                                             top |-> InterpolateOffset(next.y)]]
         IN  /\ next # spring
             /\ next.x \in Toward(spring.x)
             /\ next.y \in Toward(spring.y)
             /\ spring' = next
             /\ styleOut' = ExposedStyle(PRM, props.isSelected, next.x, next.y)
             /\ dom' = IF props.adjustScrolling /\ scrollRef /\ ~PRM
                       THEN [moved EXCEPT !.scrollTop =
                               moved.scrollTop + (BoundingTop(moved) - transform.clientTop)]
                       ELSE moved
    /\ UNCHANGED <<props, pref, triggered, finished, transform, queue, previous,
                   deps, scrollRef, fx, pc, hd, sel>>

AnimNext == StateRender \/ ParentRender \/ Commit \/ LayoutEffect1 \/ LayoutEffect2 \/ Frame

\* The two other pieces, not mounted.
HdIdle == hd = [off |-> TRUE]
SelIdle == sel = [off |-> TRUE]
AnimOff == AnimIdle /\ UNCHANGED animVars

Init == AnimInit /\ HdIdle /\ SelIdle

Spec == Init /\ [][AnimNext]_vars

\* The scheduling React guarantees: a dispatched update is rendered, a render
\* is committed, and the layout effects of a commit run, all synchronously.
FairSpec ==
    /\ Spec
    /\ WF_vars(StateRender)
    /\ WF_vars(Commit)
    /\ WF_vars(LayoutEffect1)
    /\ WF_vars(LayoutEffect2)

\* ------------------------------------------------------------------------
\* Properties of useMovingAnimation
\* ------------------------------------------------------------------------

\* The trigger layout effect is about to run its body (its dependency changed).
TriggerFires == pc = "effect2" /\ (~deps.ran \/ deps.trigger # props.trigger)

\* The position the element is laid out at once its inline left/top are cleared.
DestinationNow == getAbsolutePosition([dom EXCEPT !.style = NoStyle])

\* C3: on a trigger with a prior position and motion not reduced, the delta is
\* previous - destination on each axis, the inline override reapplied equals
\* the delta (none on an axis whose delta is 0), so the element's position at
\* the end of the layout effect equals the previous position; the transform
\* recorded, and the one the next render sees, is exactly (x, y).
C3_MeasureAndFreeze ==
    /\ [][(TriggerFires /\ previous.has /\ ~PRM) =>
            LET x == previous.left - DestinationNow.left
                y == previous.top - DestinationNow.top
            IN  /\ dom'.style.left = (IF x = 0 THEN NoOverride ELSE Px(x))
                /\ dom'.style.top = (IF y = 0 THEN NoOverride ELSE Px(y))
                /\ getAbsolutePosition(dom') = previous
                /\ DestinationNow.left + PxOf(dom'.style.left) = previous.left
                /\ DestinationNow.top + PxOf(dom'.style.top) = previous.top
                /\ queue'.hasTransform
                /\ queue'.transform.x = x
                /\ queue'.transform.y = y]_vars
    /\ [][(queue.hasTransform /\ pc' = "commit") =>
            /\ transform'.x = queue.transform.x
            /\ transform'.y = queue.transform.y]_vars

\* C3 witness: the element moved up and not sideways while animated a first
\* time, so it is frozen with a top override and no left override.
C3_Witness ==
    /\ fx = "animated"
    /\ queue.hasTransform
    /\ queue.transform.y > 0
    /\ queue.transform.x = 0
    /\ dom.style = [left |-> NoOverride, top |-> Px(queue.transform.y)]

\* The hook has rendered at least once.
Rendered == pc # "render" \/ dom.attached

\* C4: whenever reduced motion is active the returned style object has no
\* left, top or zIndex key.
C4_ReducedMotionNoKeys ==
    (Rendered /\ PRM) => DOMAIN styleOut \cap {"left", "top", "zIndex"} = {}

\* C4 witness: motion is reduced after an animation was triggered while motion
\* was enabled, with a non-zero recorded delta, on a selected block.
C4_Witness ==
    /\ PRM
    /\ pc = "idle"
    /\ triggered > 0
    /\ transform.y # 0
    /\ props.isSelected

\* C10: the finished counter never exceeds the triggered counter and lags it
\* by at most one, in the rendered state and with the dispatches still queued.
C10_CounterLag ==
    /\ triggered - finished \in 0..1
    /\ (triggered + queue.trigger) - (finished + queue.end) \in 0..1

\* C10 witness: a new trigger is dispatched while the previous one is not yet
\* acknowledged.
C10_Witness ==
    /\ triggered = finished + 1
    /\ queue.trigger = 1
    /\ queue.end = 1

\* C6: a trigger queues exactly one increment of the triggered counter, and
\* the render that follows sees triggered one higher and different from
\* finished; the acknowledging layout effect queues one increment of the
\* finished counter exactly when the triggered counter differs from the value
\* it last ran with; neither counter ever decreases; and once triggers stop,
\* the two counters eventually are, and stay, equal.
C6_Generations ==
    /\ [][(TriggerFires /\ previous.has /\ ~PRM) =>
            queue'.trigger = queue.trigger + 1]_vars
    /\ [][(queue.trigger > 0 /\ pc' = "commit") =>
            (triggered' = triggered + 1 /\ triggered' # finished')]_vars
    /\ [][pc = "effect1" =>
            queue'.end = queue.end + (IF triggered # deps.triggered THEN 1 ELSE 0)]_vars
    /\ [][(pc' = "commit") => finished' = finished + queue.end]_vars
    /\ [][triggered' >= triggered /\ finished' >= finished]_vars
    /\ (<>[](fx # "animated") => <>[](triggered = finished /\ queue.end = 0))

\* C6 witness: two animations were triggered and both were acknowledged.
C6_Witness ==
    /\ pc = "idle"
    /\ triggered = 2
    /\ finished = 2

\* C7: with no prior position the trigger layout effect changes nothing (not
\* the inline left/top, not the scroll offset, no dispatch to either counter
\* or to the transform), and after it the counters are 0, the transform is
\* (0, 0, 0) and every exposed style value is 'no override'.
C7_FirstMount ==
    /\ [][(TriggerFires /\ ~previous.has) =>
            (dom' = dom /\ queue' = queue /\ scrollRef' = scrollRef
             /\ triggered' = triggered /\ finished' = finished
             /\ transform' = transform /\ spring' = spring)]_vars
    /\ [](fx = "skipped" =>
            /\ dom.style = NoStyle
            /\ dom.scrollTop = 0
            /\ triggered = 0
            /\ finished = 0
            /\ queue = NoQueue
            /\ transform = [x |-> 0, y |-> 0, clientTop |-> 0]
            /\ \A k \in {"left", "top", "zIndex"} :
                 k \in DOMAIN styleOut => styleOut[k] = NoOverride)

\* C7 witness: the first mount of a selected block with motion enabled, not
\* laid out at the origin.
C7_Witness ==
    /\ fx = "skipped"
    /\ ~PRM
    /\ props.isSelected
    /\ dom.base.top > 0
    /\ DOMAIN styleOut = {"left", "top", "zIndex"}

Nearest(n, v) == 2 * n * Scale - Scale <= 2 * v /\ 2 * v <= 2 * n * Scale + Scale

\* The left / top override exposed for offset v: v rounded to a nearest integer
\* pixel, and 'no override' when that is zero.
RoundedOverride(value, v) ==
    IF value = NoOverride THEN Nearest(0, v)
    ELSE value.t = "px" /\ value.n # 0 /\ Nearest(value.n, v)

\* C9 as stated: rounded left/top, zIndex '1' exactly while selected and
\* mid-animation, and no zIndex override whenever neither a left nor a top
\* override is exposed.
C9_Original ==
    (Rendered /\ ~PRM) =>
        /\ DOMAIN styleOut = {"left", "top", "zIndex"}
        /\ RoundedOverride(styleOut.left, spring.x)
        /\ RoundedOverride(styleOut.top, spring.y)
        /\ styleOut.zIndex = ZOne <=>
             (props.isSelected /\ spring # [x |-> 0, y |-> 0])
        /\ styleOut.zIndex \in {ZOne, NoOverride}
        /\ (styleOut.left = NoOverride /\ styleOut.top = NoOverride)
             => styleOut.zIndex = NoOverride

\* C9 amended: rounded left/top; zIndex '1' exactly while selected and the
\* unrounded offset is not (0, 0); so an exposed left or top override on a
\* selected block comes with the zIndex override, and an offset that rounds
\* to zero on both axes without being zero still exposes zIndex '1'.
C9_Amended ==
    (Rendered /\ ~PRM) =>
        /\ DOMAIN styleOut = {"left", "top", "zIndex"}
        /\ RoundedOverride(styleOut.left, spring.x)
        /\ RoundedOverride(styleOut.top, spring.y)
        /\ styleOut.zIndex = ZOne <=>
             (props.isSelected /\ spring # [x |-> 0, y |-> 0])
        /\ styleOut.zIndex \in {ZOne, NoOverride}
        /\ (props.isSelected /\
            (styleOut.left # NoOverride \/ styleOut.top # NoOverride))
             => styleOut.zIndex = ZOne

\* C9 witness: a selected block mid-animation whose offset is below half a
\* pixel on both axes: no left or top override, and zIndex '1'.
C9_Witness ==
    /\ ~PRM
    /\ pc = "idle"
    /\ props.isSelected
    /\ spring # [x |-> 0, y |-> 0]
    /\ styleOut.left = NoOverride
    /\ styleOut.top = NoOverride
    /\ styleOut.zIndex = ZOne

\* ------------------------------------------------------------------------
\* HeadingLevelDropdown
\* ------------------------------------------------------------------------

HEADING_LEVELS == <<1, 2, 3, 4, 5, 6>>

\* import { DOWN } from '@wordpress/keycodes';
DOWN == 40

\* The key codes tried on the toggle button: ENTER, UP and DOWN.
KeyCodes == {13, 38, DOWN}

NoEvent == [kind |-> "none", key |-> 0, control |-> 0, wasOpen |-> FALSE,
            defaultPrevented |-> FALSE, propagationStopped |-> FALSE,
            focused |-> FALSE, onToggle |-> 0, onChange |-> <<>>]

\* openOnArrowDown without the ! isOpen test.
ShouldOpenOnArrowDownAnyState(isOpen, keyCode) == keyCode = DOWN

\* if ( ! isOpen && event.keyCode === DOWN )
ShouldOpenOnArrowDown(isOpen, keyCode) == ~isOpen /\ keyCode = DOWN

\* An onClick that passes the selected level instead of the target level.
OnClickArgumentSelected(targetLevel, selectedLevel) == selectedLevel

\* onClick() { onChange( targetLevel ); }
OnClickArgument(targetLevel, selectedLevel) == targetLevel

\* controls={ HEADING_LEVELS.map( ( targetLevel ) => { ... } ) }
Controls(selectedLevel) ==
    [i \in DOMAIN HEADING_LEVELS |->
        [isActive |-> HEADING_LEVELS[i] = selectedLevel,
         title |-> HEADING_LEVELS[i],
         onClick |-> <<OnClickArgument(HEADING_LEVELS[i], selectedLevel)>>]]

\* Dropdown's onToggle: the popover opens when closed and closes when open.
onToggle(isOpen) == ~isOpen

HdInit ==
    hd \in [isOpen : {FALSE}, selectedLevel : 1..6, ev : {NoEvent}]

\* onKeyDown={ openOnArrowDown } on the toggle button.
KeyDown ==
    /\ \E key \in KeyCodes :
         LET open == ShouldOpenOnArrowDown(hd.isOpen, key)
         IN  hd' = [hd EXCEPT
                      !.isOpen = IF open THEN onToggle(hd.isOpen) ELSE hd.isOpen,
                      !.ev = [NoEvent EXCEPT !.kind = "keydown", !.key = key,
                                !.wasOpen = hd.isOpen,
                                !.defaultPrevented = open,
                                !.propagationStopped = open,
                                !.onToggle = IF open THEN 1 ELSE 0]]
    /\ UNCHANGED sel
    /\ AnimOff

\* onClick={ onToggle } on the toggle button.
ToggleClick ==
    /\ hd' = [hd EXCEPT !.isOpen = onToggle(hd.isOpen),
                        !.ev = [NoEvent EXCEPT !.kind = "toggle",
                                  !.wasOpen = hd.isOpen, !.onToggle = 1]]
    /\ UNCHANGED sel
    /\ AnimOff

\* A click on the i-th control of the popover's toolbar group.
ControlClick ==
    /\ hd.isOpen
    /\ \E i \in DOMAIN HEADING_LEVELS :
         hd' = [hd EXCEPT !.ev = [NoEvent EXCEPT !.kind = "click", !.control = i,
                                    !.wasOpen = hd.isOpen,
                                    !.onChange = Controls(hd.selectedLevel)[i].onClick]]
    /\ UNCHANGED sel
    /\ AnimOff

\* onMouseDown( event ) { event.preventDefault(); event.currentTarget.focus(); }
ControlMouseDown ==
    /\ hd.isOpen
    /\ \E i \in DOMAIN HEADING_LEVELS :
         hd' = [hd EXCEPT !.ev = [NoEvent EXCEPT !.kind = "mousedown", !.control = i,
                                    !.wasOpen = hd.isOpen,
                                    !.defaultPrevented = TRUE, !.focused = TRUE]]
    /\ UNCHANGED sel
    /\ AnimOff

\* The popover is dismissed by the toolkit (focus leaves it, Escape).
Dismiss ==
    /\ hd.isOpen
    /\ hd' = [hd EXCEPT !.isOpen = FALSE,
                        !.ev = [NoEvent EXCEPT !.kind = "dismiss", !.wasOpen = TRUE]]
    /\ UNCHANGED sel
    /\ AnimOff

\* The block renders the dropdown with another selectedLevel.
LevelChanged ==
    /\ \E l \in 1..6 :
         /\ l # hd.selectedLevel
         /\ hd' = [hd EXCEPT !.selectedLevel = l,
                             !.ev = [NoEvent EXCEPT !.kind = "props",
                                       !.wasOpen = hd.isOpen]]
    /\ UNCHANGED sel
    /\ AnimOff

HdNext == KeyDown \/ ToggleClick \/ ControlClick \/ ControlMouseDown \/ Dismiss \/ LevelChanged

InitHeading == AnimIdle /\ HdInit /\ SelIdle

SpecHeading == InitHeading /\ [][HdNext]_vars

\* C1: a click on the control for level L calls onChange exactly once, with L
\* (whatever selectedLevel is), and a call with L comes from no other control.
C1_OnChangeOnce ==
    hd.ev.kind = "click" =>
        /\ Len(hd.ev.onChange) = 1
        /\ hd.ev.onChange[1] = HEADING_LEVELS[hd.ev.control]
        /\ hd.ev.onChange[1] \in 1..6
        /\ \A j \in DOMAIN HEADING_LEVELS :
             HEADING_LEVELS[j] = hd.ev.onChange[1] => j = hd.ev.control

\* C1 witness: level 6 was clicked while level 2 was selected.
C1_Witness ==
    /\ hd.ev.kind = "click"
    /\ hd.selectedLevel = 2
    /\ hd.ev.control = 6
    /\ hd.ev.onChange = <<6>>

\* C2: a key-down calls onToggle (once, with preventDefault and
\* stopPropagation) exactly when the popover was closed and the key is DOWN;
\* a key-down never closes an open popover and a non-DOWN key never toggles.
C2_OpenOnArrowDown ==
    hd.ev.kind = "keydown" =>
        /\ hd.ev.onToggle \in {0, 1}
        /\ hd.ev.onToggle = 1 <=> (~hd.ev.wasOpen /\ hd.ev.key = DOWN)
        /\ hd.ev.defaultPrevented <=> hd.ev.onToggle = 1
        /\ hd.ev.propagationStopped <=> hd.ev.onToggle = 1
        /\ hd.ev.wasOpen => hd.isOpen
        /\ hd.ev.key # DOWN => hd.isOpen = hd.ev.wasOpen
        /\ hd.ev.onToggle = 1 => hd.isOpen

\* C2 witness: DOWN was pressed while the popover was open, and it stays open.
C2_Witness ==
    /\ hd.ev.kind = "keydown"
    /\ hd.ev.key = DOWN
    /\ hd.ev.wasOpen
    /\ hd.isOpen
    /\ hd.ev.onToggle = 0

\* ------------------------------------------------------------------------
\* Block-directory selectors
\* ------------------------------------------------------------------------

\* JavaScript values a selector returns.
JsFalse == [t |-> "boolean", s |-> "false"]
JsUndefined == [t |-> "undefined", s |-> ""]
JsString(x) == [t |-> "string", s |-> x]
JsArray(a) == [t |-> "array", a |-> a]

\* The keys, notices, queries and result lists of the test's fixtures, and a
\* second notice and a longer list.
BlockIds == {"block/has-error", "block/no-error"}
Notices == {"Error notice", "Another notice"}
Queries == {"boxer", "not-found"}
ResultLists == {<<>>, <<"downloadableBlock">>, <<"downloadableBlock", "other">>}

PartialFunctions(K, V) == UNION {[D -> V] : D \in SUBSET K}

\* const state = { errorNotices: { 'block/has-error': 'Error notice' } } and
\* { downloadableBlocks: { results: { boxer: [ downloadableBlock ] } } }
TestState ==
    [errorNotices |-> [k \in {"block/has-error"} |-> "Error notice"],
     results |-> [q \in {"boxer"} |-> <<"downloadableBlock">>]]

States == [errorNotices : PartialFunctions(BlockIds, Notices),
           results : PartialFunctions(Queries, ResultLists)]

\* A lookup that returns the absent value for a missing key.
getErrorNoticeForBlockAbsent(state, blockId) ==
    IF blockId \in DOMAIN state.errorNotices
    THEN JsString(state.errorNotices[blockId])
    ELSE JsUndefined

\* A single error notice, or the false sentinel when absent.
getErrorNoticeForBlock(state, blockId) ==
    IF blockId \in DOMAIN state.errorNotices
    THEN JsString(state.errorNotices[blockId])
    ELSE JsFalse

\* The result array of a query; an empty array, never absent, when unmatched.
getDownloadableBlocks(state, filterValue) ==
    IF filterValue \in DOMAIN state.results
    THEN JsArray(state.results[filterValue])
    ELSE JsArray(<<>>)

NoCall == [fn |-> "none", key |-> "", result |-> JsUndefined]

SelInit ==
    /\ TestState \in States
    /\ sel \in [state : States, call : {NoCall}]

\* getErrorNoticeForBlock( state, blockId )
CallGetErrorNoticeForBlock ==
    /\ \E k \in BlockIds :
         sel' = [sel EXCEPT !.call = [fn |-> "getErrorNoticeForBlock", key |-> k,
                                      result |-> getErrorNoticeForBlock(sel.state, k)]]
    /\ UNCHANGED hd
    /\ AnimOff

\* getDownloadableBlocks( state, filterValue )
CallGetDownloadableBlocks ==
    /\ \E q \in Queries :
         sel' = [sel EXCEPT !.call = [fn |-> "getDownloadableBlocks", key |-> q,
                                      result |-> getDownloadableBlocks(sel.state, q)]]
    /\ UNCHANGED hd
    /\ AnimOff

SelNext == CallGetErrorNoticeForBlock \/ CallGetDownloadableBlocks

InitSelectors == AnimIdle /\ HdIdle /\ SelInit

SpecSelectors == InitSelectors /\ [][SelNext]_vars

\* C5: getErrorNoticeForBlock returns the stored notice for a key errorNotices
\* has and the boolean false otherwise; getDownloadableBlocks returns the
\* stored array for a query results has and an empty array otherwise; a call
\* leaves the state as it was.
C5_MissingKeyDefaults ==
    /\ [](sel.call.fn = "getErrorNoticeForBlock" =>
            /\ sel.call.result # JsUndefined
            /\ IF sel.call.key \in DOMAIN sel.state.errorNotices
               THEN /\ sel.call.result.t = "string"
                    /\ sel.call.result.s = sel.state.errorNotices[sel.call.key]
               ELSE /\ sel.call.result.t = "boolean"
                    /\ sel.call.result.s = "false")
    /\ [](sel.call.fn = "getDownloadableBlocks" =>
            /\ sel.call.result.t = "array"
            /\ IF sel.call.key \in DOMAIN sel.state.results
               THEN sel.call.result.a = sel.state.results[sel.call.key]
               ELSE Len(sel.call.result.a) = 0)
    /\ [][sel'.state = sel.state]_vars

\* C5 witness: on the test's state, the notice of a block without one was
\* asked for and false came back.
C5_Witness ==
    /\ sel.state = TestState
    /\ sel.call.fn = "getErrorNoticeForBlock"
    /\ sel.call.key = "block/no-error"
    /\ sel.call.result = JsFalse

====
